---- MODULE Spec2Model ----
(***************************************************************************)
(* The session turn engine of the TurtleSoup plugin (src/main.py): the     *)
(* game_states registry, the start handler with its session waiter, the    *)
(* question-submission handler, the control commands, and the pure text    *)
(* functions they use.                                                     *)
(*                                                                         *)
(* Texts are sequences of characters; a character is a short ASCII string  *)
(* standing for one code point ("shi" stands for the single character of   *)
(* the affirmative copula, and so on).                                     *)
(*                                                                         *)
(* Scheduling is asyncio's: a handler runs without interruption up to its  *)
(* next await, so an action is the code between two awaits.  The awaits    *)
(* modelled as suspension points are event.send where the handler goes on  *)
(* to change state afterwards, the two text_chat calls and the wait on the *)
(* session waiter's future.                                                *)
(***************************************************************************)
EXTENDS Integers, Sequences, FiniteSets, TLC

\* ------------------------------------------------------------------ bounds
NStart == 2          \* start handlers that may be running at once
NTurn == 2           \* question/end handlers that may be running at once
MaxQuestions == 1    \* config max_questions (default 40)
SessionTimeout == 1  \* config session_timeout, in clock ticks (default 1000 s)
MaxTextLen == 3      \* length of the texts drawn for the pure-function checks
MaxBlocks == 2       \* blocks of the bank sources drawn for the parser checks

\* ------------------------------------------------------- program constants
MaxAttempts == 10    \* change_question: max_attempts
GuessLongLen == 25   \* len(question) > 25
GuessShortLen == 15  \* len(question) > 15
IdWidth == 3         \* zfill(3)

Keys == {"g1", "u1"}
Starters == 1..NStart
Turns == 1..NTurn
Objs == 1..(NStart + NTurn + Cardinality(Keys))

\* ------------------------------------------------------------------- texts
Contains(sub, s) ==
    \E i \in 0..(Len(s) - Len(sub)) : \A j \in 1..Len(sub) : s[i + j] = sub[j]

ContainsAny(subs, s) == \E w \in subs : Contains(w, s)

\* "nl" stands for the line feed
IsSpace(c) == c \in {" ", "nl"}

LowerChar(c) ==
    CASE c = "A" -> "a"
      [] c = "B" -> "b"
      [] c = "C" -> "c"
      [] OTHER -> c

Lower(s) == [i \in 1..Len(s) |-> LowerChar(s[i])]

RECURSIVE SplitFrom(_, _, _)
SplitFrom(s, i, cur) ==
    IF i > Len(s)
    THEN IF cur = <<>> THEN <<>> ELSE <<cur>>
    ELSE IF IsSpace(s[i])
         THEN IF cur = <<>> THEN SplitFrom(s, i + 1, <<>>)
              ELSE <<cur>> \o SplitFrom(s, i + 1, <<>>)
         ELSE SplitFrom(s, i + 1, Append(cur, s[i]))

\* str.split(): the maximal runs of non-whitespace characters
Split(s) == SplitFrom(s, 1, <<>>)

RECURSIVE ZFill(_)
ZFill(s) == IF Len(s) >= IdWidth THEN s ELSE ZFill(<<"0">> \o s)

Range(f) == {f[i] : i \in DOMAIN f}

\* str.strip(): the text without its leading and trailing whitespace
RECURSIVE Strip(_)
Strip(s) ==
    IF s = <<>> THEN s
    ELSE IF IsSpace(s[1]) THEN Strip(SubSeq(s, 2, Len(s)))
    ELSE IF IsSpace(s[Len(s)]) THEN Strip(SubSeq(s, 1, Len(s) - 1))
    ELSE s

RECURSIVE Concat(_)
Concat(ss) == IF ss = <<>> THEN <<>> ELSE Head(ss) \o Concat(Tail(ss))

\* -------------------------------------------------------------- vocabulary
LblYes == <<"shi">>
LblNo == <<"fou">>
LblUnrelated == <<"wu", "guan">>
LblAskAgain == <<"qing", "chong", "xin", "ti", "wen">>
LblClose == <<"hen", "jie", "jin", "le">>
LblPartly == <<"ni", "cai", "dui", "le", "yi", "bu4", "fen">>

valid_responses == <<LblYes, LblNo, LblUnrelated, LblAskAgain, LblClose, LblPartly>>

NegativeWords == {<<"bu", "dui">>, <<"cuo", "wu4">>, <<"bu", "shi">>, <<"bu">>}
PositiveWords == {<<"dui">>, <<"zheng", "que">>, <<"mei", "cuo">>, <<"shi", "de">>}
UnrelatedWords == {<<"wu", "guan">>, <<"bu", "xiang", "guan">>, <<"mei", "guan", "xi">>}

RECURSIVE FirstValid(_, _)
FirstValid(response, i) ==
    IF i > Len(valid_responses) THEN <<>>
    ELSE IF Contains(valid_responses[i], response) THEN valid_responses[i]
    ELSE FirstValid(response, i + 1)

\* a normalization that hands the reply on as it came
ReplyAsItCame(ai_response) == Strip(ai_response)

_validate_ai_response(ai_response) ==
    LET response == Strip(ai_response) IN
    IF FirstValid(response, 1) # <<>> THEN FirstValid(response, 1)
    ELSE IF ContainsAny(NegativeWords, response) THEN LblNo
    ELSE IF ContainsAny(PositiveWords, response) THEN LblYes
    ELSE IF ContainsAny(UnrelatedWords, response) THEN LblUnrelated
    ELSE LblAskAgain

\* a judge that looks for the whole solution in the question
JudgeByWholeAnswer(player_question, answer) ==
    IF answer # <<>> /\ Contains(answer, player_question) THEN LblYes ELSE LblNo

_simple_judge(player_question, answer) ==
    IF \E keyword \in Range(Split(answer)) : Contains(keyword, player_question)
    THEN LblYes ELSE LblNo

stop_words ==
    { <<"de">>, <<"le">>, <<"shi">>, <<"zai">>, <<"he">>, <<"yu">>, <<"huo">>,
      <<"dan">>, <<"ran", "hou">>, <<"yin", "wei">>, <<"suo", "yi3">>, <<"zhe">>,
      <<"na">>, <<"yi", "ge">>, <<"jiu">>, <<"ye">>, <<"dou">> }

\* "for word in answer_lower": iterating a str yields its characters
IterStr(s) == {<<s[i]>> : i \in 1..Len(s)}

AnswerWords(answer_lower) ==
    {word \in IterStr(answer_lower) : Len(word) > 1 /\ word \notin stop_words}

MatchCount(words, guess_lower) ==
    Cardinality({word \in words : Contains(word, guess_lower)})

_simple_answer_check(player_guess, answer) ==
    LET guess_lower == Lower(player_guess)
        answer_lower == Lower(answer)
        answer_words == AnswerWords(answer_lower)
        total_key_words == Cardinality(answer_words)
        match_count == MatchCount(answer_words, guess_lower)
    IN  IF total_key_words > 0
        THEN 2 * match_count >= total_key_words
        ELSE FALSE

guess_keywords ==
    { <<"da", "an", "shi">>, <<"zhen", "xiang", "shi">>, <<"yin", "wei">>,
      <<"suo", "yi3">>, <<"shi", "yin", "wei">>, <<"yuan", "yin", "shi">>,
      <<"wo", "jue", "de2", "shi">>, <<"wo", "ren", "wei", "shi">>,
      <<"ying", "gai", "shi">>, <<"yi", "ding", "shi">>, <<"ken", "ding", "shi">> }
CausalWords ==
    { <<"dao", "zhi">>, <<"zao", "cheng">>, <<"jie2", "guo">>,
      <<"fa", "sheng", "le">>, <<"shi4", "shi2", "shi">> }
ActionWords == { <<"si">>, <<"sha">>, <<"hai">>, <<"zuo">>, <<"fa", "sheng">> }

is_a_guess(question) ==
    \/ ContainsAny(guess_keywords, question)
    \/ Len(question) > GuessLongLen /\ ContainsAny(CausalWords, question)
    \/ /\ Contains(<<"shi">>, question)
       /\ Len(question) > GuessShortLen
       /\ ContainsAny(ActionWords, question)

\* -------------------------------------------------------------------- bank
NoText == <<>>
NoRec == [id |-> NoText, question |-> NoText, answer |-> NoText]
Rec1 == [id |-> <<"0", "0", "1">>, question |-> <<"s", "1">>,
         answer |-> <<"a", "b", " ", "c", "d">>]
Rec2 == [id |-> <<"0", "0", "2">>, question |-> <<"s", "2">>,
         answer |-> <<"e", "f">>]
\* the banks a questions_database.txt can yield: one record, or several
Banks == {<<Rec1>>, <<Rec1, Rec2>>}

\* what a player may type after the command word
StartArgs == {NoText, <<"1">>, <<"9">>}
QPlain == <<"a", "b", "?">>
QGuess == <<"da", "an", "shi", "a", "b", " ", "c", "d">>
Questions == {QPlain, QGuess}
\* what text_chat may return (completion_text), or that it raised
Failure == <<"raise">>
Replies == {<<"shi">>, <<"h", "m">>}

\* ------------------------------------------------------------------- state
VARIABLES
    bank,           \* self.questions_bank
    provider,       \* whether context.get_using_provider() returns a provider
    game_states,    \* self.game_states: key -> game_state object, 0 when absent
    heap,           \* the game_state dicts
    st,             \* the running start_turtle_soup calls and their waiters
    tk,             \* the running question / end handlers
    USER_SESSIONS,  \* session_waiter's registry: key -> waiter, 0 when absent
    sent,           \* the messages event.send was given in the last step
    alive,          \* whether the plugin instance is still loaded
    pf              \* inputs and result of the pure functions under check

vars == <<bank, provider, game_states, heap, st, tk, USER_SESSIONS, sent, alive, pf>>

NullObj == [rec |-> NoRec, question_count |-> 0, ctx |-> <<>>, controller |-> 0]
IdleSt == [pc |-> "idle", key |-> "", arg |-> NoText, obj |-> 0, rec |-> NoRec,
           rem |-> 0, lock |-> 0]
IdleTk == [pc |-> "idle", key |-> "", obj |-> 0, q |-> NoText, ans |-> NoText]
NoPf == [op |-> "none", a |-> NoText, b |-> NoText, r |-> NoText]

Msg(type, key, text, n, m) == [type |-> type, key |-> key, text |-> text, n |-> n, m |-> m]
Note(type, key) == Msg(type, key, NoText, 0, 0)

SystemTurn(question, answer) == [role |-> "system", content |-> <<question, answer>>]
UserTurn(q) == [role |-> "user", content |-> <<q>>]
AssistantTurn(a) == [role |-> "assistant", content |-> <<a>>]

Init ==
    /\ bank \in Banks
    /\ provider \in BOOLEAN
    /\ game_states = [k \in Keys |-> 0]
    /\ heap = [o \in Objs |-> NullObj]
    /\ st = [s \in Starters |-> IdleSt]
    /\ tk = [t \in Turns |-> IdleTk]
    /\ USER_SESSIONS = [k \in Keys |-> 0]
    /\ sent = <<>>
    /\ alive = TRUE
    /\ pf = NoPf

\* ----------------------------------------------------------------- helpers
Min(S) == CHOOSE x \in S : \A y \in S : x <= y

Referenced(g, s2, t2) ==
    ({g[k] : k \in Keys} \cup {s2[s].obj : s \in Starters} \cup {t2[t].obj : t \in Turns})
        \ {0}

\* a dict nobody refers to is gone.  Of a dict that left game_states only
\* the record and the count are read again (by the handler that still holds
\* it, for its messages); its controller and its context are kept empty
Collect(h, g, s2, t2) ==
    [o \in Objs |->
        IF o \notin Referenced(g, s2, t2) THEN NullObj
        ELSE IF o \in {g[k] : k \in Keys} THEN h[o]
        ELSE [h[o] EXCEPT !.controller = 0, !.ctx = <<>>]]

NewObj == Min(Objs \ Referenced(game_states, st, tk))

FreeStarter == Min({s \in Starters : st[s].pc = "idle"})
FreeTurn == Min({t \in Turns : tk[t].pc = "idle"})

Effect(g, h, s2, t2, u, msgs) ==
    /\ game_states' = g
    /\ heap' = Collect(h, g, s2, t2)
    /\ st' = s2
    /\ tk' = t2
    /\ USER_SESSIONS' = u
    /\ sent' = msgs
    /\ UNCHANGED <<bank, provider, pf>>

Commit(g, h, s2, t2, u, msgs) == Effect(g, h, s2, t2, u, msgs) /\ UNCHANGED alive

\* SessionController.keep(timeout, reset_timeout=True): a new timer of the
\* full duration; on a controller whose future is done it has no effect
Keep(s2, c) ==
    [s \in Starters |->
        IF s = c /\ s2[s].pc = "waiting" THEN [s2[s] EXCEPT !.rem = SessionTimeout]
        ELSE s2[s]]

\* the handler of trigger() returns: the waiter's lock is released
Release(s2, t) ==
    [s \in Starters |-> IF s2[s].lock = t THEN [s2[s] EXCEPT !.lock = 0] ELSE s2[s]]

Acquire(s2, w, t) ==
    [s \in Starters |-> IF s = w THEN [s2[s] EXCEPT !.lock = t] ELSE s2[s]]

\* _cleanup_game_session for each key of ks: pop the dict, stop its stored
\* controller.  A stopped waiter's future resolves and its start handler runs
\* its finally block (a second pop of the same key, which finds nothing)
\* before any other handler can create a session.
Stopped(h, ks) ==
    {c \in Starters :
        /\ st[c].pc = "waiting"
        /\ \E k \in ks : game_states[k] # 0 /\ h[game_states[k]].controller = c}

_cleanup_game_states(ks) == [k \in Keys |-> IF k \in ks THEN 0 ELSE game_states[k]]

_cleanup_starters(s2, h, ks) ==
    [s \in Starters |-> IF s \in Stopped(h, ks) THEN IdleSt ELSE s2[s]]

_cleanup_waiters(u, h, ks) ==
    [k \in Keys |->
        IF \E c \in Stopped(h, ks) : st[c].key = k THEN 0 ELSE u[k]]

\* the way an input for key k reaches the plugin: through the waiter w
\* registered for k (its handler runs under the waiter's lock), or, when no
\* waiter is registered (w = 0), through the command handlers
Path(k, w) ==
    /\ alive
    /\ \/ w = 0 /\ USER_SESSIONS[k] = 0
       \/ /\ w # 0
          /\ USER_SESSIONS[k] = w
          /\ st[w].pc = "waiting"
          /\ st[w].lock = 0

Waiters == {0} \cup Starters

\* turtle_soup_waiter: on the first interaction the controller is stored
StoreController(k, w) ==
    IF w # 0 /\ game_states[k] # 0 /\ heap[game_states[k]].controller = 0
    THEN [heap EXCEPT ![game_states[k]].controller = w]
    ELSE heap

\* ------------------------------------------------------------ question bank
FirstWithId(question_id) == Min({i \in 1..Len(bank) : bank[i].id = question_id})

\* a lookup that answers an unknown id with some record of the bank
AnyRecordForId(question_id) ==
    IF Len(bank) = 0 THEN {NoRec} ELSE Range(bank)

\* the records _get_question_and_answer may return; NoRec is (None, None, {})
_get_question_and_answer(question_id) ==
    IF Len(bank) = 0 THEN {NoRec}
    ELSE IF question_id # NoText
    THEN IF \E i \in 1..Len(bank) : bank[i].id = question_id
         THEN {bank[FirstWithId(question_id)]}
         ELSE {NoRec}
    ELSE Range(bank)

Usable(r) == r.question # NoText /\ r.answer # NoText

\* the while loop of change_question: the records it may end with
RECURSIVE ChangeLoop(_, _, _)
ChangeLoop(attempts, last, current_question) ==
    IF attempts < MaxAttempts
    THEN UNION { IF Usable(r) /\ r.question # current_question
                 THEN {r}
                 ELSE ChangeLoop(attempts + 1, r, current_question)
                 : r \in _get_question_and_answer(NoText) }
    ELSE {last}

\* ------------------------------------------------------- start_turtle_soup
Unknown == <<"wei", "zhi">>

StartRejected(k) ==
    /\ Path(k, 0)
    /\ game_states[k] # 0
    /\ Commit(game_states, heap, st, tk, USER_SESSIONS, <<Note("in_progress", k)>>)

StartBegin(k, arg) ==
    /\ Path(k, 0)
    /\ game_states[k] = 0
    /\ \E s \in Starters : st[s].pc = "idle"
    /\ LET s == FreeStarter
           specified_question_id == IF arg = NoText THEN NoText ELSE ZFill(arg)
       IN  Commit(game_states, heap,
                  [st EXCEPT ![s] = [IdleSt EXCEPT !.pc = "disclaimer", !.key = k,
                                                   !.arg = specified_question_id]],
                  tk, USER_SESSIONS, <<Note("disclaimer", k)>>)

StartResolve(s) ==
    /\ st[s].pc = "disclaimer"
    /\ LET k == st[s].key IN
       \E r \in _get_question_and_answer(st[s].arg) :
          IF ~Usable(r)
          THEN Commit(game_states, heap, [st EXCEPT ![s] = IdleSt], tk, USER_SESSIONS,
                      <<Note(IF st[s].arg # NoText THEN "not_found" ELSE "no_questions", k)>>)
          ELSE LET o == NewObj IN
               Commit([game_states EXCEPT ![k] = o],
                      [heap EXCEPT ![o] = [NullObj EXCEPT !.rec = r]],
                      [st EXCEPT ![s].pc = "intro", ![s].arg = NoText, ![s].obj = o, ![s].rec = r],
                      tk, USER_SESSIONS,
                      <<Msg("intro", k, r.question, MaxQuestions, 0)>>)

\* await turtle_soup_waiter(event): register_wait enters the waiter in
\* USER_SESSIONS and starts its timer
Register(s) ==
    [st EXCEPT ![s] = [IdleSt EXCEPT !.pc = "waiting", !.key = st[s].key,
                                     !.rem = SessionTimeout]]

StartSeed(s) ==
    /\ st[s].pc = "intro"
    /\ LET k == st[s].key
           o == st[s].obj
           system_prompt == SystemTurn(st[s].rec.question, st[s].rec.answer)
       IN  IF provider
           THEN Commit(game_states, [heap EXCEPT ![o].ctx = Append(@, system_prompt)],
                       Register(s), tk, [USER_SESSIONS EXCEPT ![k] = s], <<>>)
           ELSE Commit(game_states, heap,
                       [st EXCEPT ![s].pc = "noprov", ![s].obj = 0, ![s].rec = NoRec],
                       tk, USER_SESSIONS, <<Note("no_provider", k)>>)

StartWait(s) ==
    /\ st[s].pc = "noprov"
    /\ Commit(game_states, heap, Register(s), tk,
              [USER_SESSIONS EXCEPT ![st[s].key] = s], <<>>)

\* time passes: every running timer is one tick nearer to its deadline
Tick ==
    /\ \E s \in Starters : st[s].pc = "waiting"
    /\ \A s \in Starters : st[s].pc = "waiting" => st[s].rem > 0
    /\ Commit(game_states, heap,
              [s \in Starters |->
                  IF st[s].pc = "waiting" THEN [st[s] EXCEPT !.rem = @ - 1] ELSE st[s]],
              tk, USER_SESSIONS, <<>>)

\* _holding times out: the future raises TimeoutError in start_turtle_soup,
\* which sends MSG_TIMEOUT
TimerExpire(s) ==
    /\ st[s].pc = "waiting"
    /\ st[s].rem = 0
    /\ LET k == st[s].key
           answer == IF game_states[k] # 0 THEN heap[game_states[k]].rec.answer
                     ELSE Unknown
       IN  Commit(game_states, heap,
                  [st EXCEPT ![s] = [IdleSt EXCEPT !.pc = "timeout_send", !.key = k]],
                  tk, [USER_SESSIONS EXCEPT ![k] = 0],
                  <<Msg("timeout", k, answer, 0, 0)>>)

\* a finally block that forgets _cleanup_game_session
StartFinallyKeepsSession(s) ==
    /\ st[s].pc = "timeout_send"
    /\ Commit(game_states, heap, [st EXCEPT ![s] = IdleSt], tk, USER_SESSIONS, <<>>)

\* the finally block of start_turtle_soup after the timeout message was sent
StartFinally(s) ==
    /\ st[s].pc = "timeout_send"
    /\ LET ks == {st[s].key} IN
       Commit(_cleanup_game_states(ks), heap,
              [x \in Starters |->
                  IF x = s THEN IdleSt ELSE _cleanup_starters(st, heap, ks)[x]],
              tk, _cleanup_waiters(USER_SESSIONS, heap, ks), <<>>)

\* ------------------------------------------- _handle_turtle_soup_question
Suspend(t, pc, k, o, q, ans) ==
    [tk EXCEPT ![t] = [pc |-> pc, key |-> k, obj |-> o, q |-> q, ans |-> ans]]

Done(t) == [tk EXCEPT ![t] = IdleTk]

\* lines 727-745 without a provider, and the tail of them with one
RoundResult(t, k, o, q, h, s2, ai_answer, msgs) ==
    IF game_states[k] = 0
    THEN Commit(game_states, h, Release(s2, t), Done(t), USER_SESSIONS, msgs)
    ELSE Commit(game_states, h, Release(s2, t), Done(t), USER_SESSIONS,
                msgs \o <<Msg("round", k, ai_answer, h[o].question_count,
                              MaxQuestions - h[o].question_count)>>)

\* a budget check that lets one submission too many through
BudgetThenJudgeLate(t, k, o, q, h, s2, msgs) ==
    IF h[o].question_count > MaxQuestions + 1
    THEN Commit(game_states, h, s2, Suspend(t, "exh_send", k, o, q, NoText),
                USER_SESSIONS,
                msgs \o <<Msg("exhausted", k, h[o].rec.answer, MaxQuestions, 0)>>)
    ELSE IF ~provider
    THEN RoundResult(t, k, o, q, h, s2, _simple_judge(q, h[o].rec.answer), msgs)
    ELSE Commit(game_states, [h EXCEPT ![o].ctx = Append(@, UserTurn(q))], s2,
                Suspend(t, "judging", k, o, q, NoText), USER_SESSIONS, msgs)

\* lines 707-728: the budget check, then the judge
BudgetThenJudge(t, k, o, q, h, s2, msgs) ==
    IF h[o].question_count > MaxQuestions
    THEN Commit(game_states, h, s2, Suspend(t, "exh_send", k, o, q, NoText),
                USER_SESSIONS,
                msgs \o <<Msg("exhausted", k, h[o].rec.answer, MaxQuestions, 0)>>)
    ELSE IF ~provider
    THEN RoundResult(t, k, o, q, h, s2, _simple_judge(q, h[o].rec.answer), msgs)
    ELSE Commit(game_states, [h EXCEPT ![o].ctx = Append(@, UserTurn(q))], s2,
                Suspend(t, "judging", k, o, q, NoText), USER_SESSIONS, msgs)

\* a count that advances by two
IncCountTwice(h, o) == [h EXCEPT ![o].question_count = @ + 2]

IncCount(h, o) == [h EXCEPT ![o].question_count = @ + 1]

\* lines 660-683, entered from cmd_turtle_soup_question or _handle_game_turn
QAccept(k, q, w) ==
    /\ Path(k, w)
    /\ game_states[k] # 0
    /\ \E t \in Turns : tk[t].pc = "idle"
    /\ LET t == FreeTurn
           o == game_states[k]
           h1 == StoreController(k, w)
           s1 == Acquire(Keep(st, h1[o].controller), w, t)
           h2 == IncCount(h1, o)
       IN  IF is_a_guess(q)
           THEN Commit(game_states, h2, s1, Suspend(t, "chk_send", k, o, q, NoText),
                       USER_SESSIONS, <<Note("checking", k)>>)
           ELSE BudgetThenJudge(t, k, o, q, h2, s1, <<>>)

\* a handler that looks at the budget before it looks at the verdict
BudgetBeforeCheck(t, is_correct) ==
    LET k == tk[t].key
        o == tk[t].obj
        q == tk[t].q
    IN  IF game_states[k] = 0
        THEN Commit(game_states, heap, Release(st, t), Done(t), USER_SESSIONS, <<>>)
        ELSE IF is_correct /\ heap[o].question_count <= MaxQuestions
        THEN Commit(game_states, heap, st, Suspend(t, "succ_send", k, o, q, NoText),
                    USER_SESSIONS,
                    <<Msg("success", k, heap[o].rec.answer, heap[o].question_count, 0)>>)
        ELSE BudgetThenJudge(t, k, o, q, heap, st, <<>>)

\* lines 687-705: after _is_answer_correct returned
AfterCheck(t, is_correct) ==
    LET k == tk[t].key
        o == tk[t].obj
        q == tk[t].q
    IN  IF game_states[k] = 0
        THEN Commit(game_states, heap, Release(st, t), Done(t), USER_SESSIONS, <<>>)
        ELSE IF is_correct
        THEN Commit(game_states, heap, st, Suspend(t, "succ_send", k, o, q, NoText),
                    USER_SESSIONS,
                    <<Msg("success", k, heap[o].rec.answer, heap[o].question_count, 0)>>)
        ELSE BudgetThenJudge(t, k, o, q, heap, st, <<>>)

\* _is_answer_correct up to its await
QCheckCall(t) ==
    /\ tk[t].pc = "chk_send"
    /\ LET answer == heap[tk[t].obj].rec.answer IN
       IF ~provider
       THEN AfterCheck(t, _simple_answer_check(tk[t].q, answer))
       ELSE Commit(game_states, heap, st,
                   Suspend(t, "checking", tk[t].key, tk[t].obj, tk[t].q, answer),
                   USER_SESSIONS, <<>>)

\* text_chat returns or raises inside _is_answer_correct
QCheckReturn(t, reply) ==
    /\ tk[t].pc = "checking"
    /\ IF reply = Failure
       THEN AfterCheck(t, _simple_answer_check(tk[t].q, tk[t].ans))
       ELSE AfterCheck(t, Contains(LblYes, reply))

\* _cleanup_game_session after the summary was sent (lines 704, 721, 771)
TurnCleanup(t) ==
    LET ks == {tk[t].key} IN
    Commit(_cleanup_game_states(ks), heap, Release(_cleanup_starters(st, heap, ks), t),
           Done(t), _cleanup_waiters(USER_SESSIONS, heap, ks), <<>>)

QSuccessCleanup(t) == tk[t].pc = "succ_send" /\ TurnCleanup(t)

QExhaustCleanup(t) == tk[t].pc = "exh_send" /\ TurnCleanup(t)

\* a judge step whose failure ends the game like an unknown error
JudgeFailureEndsSession(t, reply) ==
    /\ tk[t].pc = "judging"
    /\ LET ks == {tk[t].key} IN
       Commit(_cleanup_game_states(ks), heap, Release(_cleanup_starters(st, heap, ks), t),
              Done(t), _cleanup_waiters(USER_SESSIONS, heap, ks),
              <<Note("ai_error", tk[t].key)>>)

\* text_chat returns or raises inside _get_ai_judge_response
QJudgeReturn(t, reply) ==
    /\ tk[t].pc = "judging"
    /\ LET k == tk[t].key
           o == tk[t].obj
           ai_answer == _validate_ai_response(reply)
       IN  IF reply = Failure
           THEN Commit(game_states, heap, Release(st, t), Done(t), USER_SESSIONS,
                       <<Note("ai_error", k)>>)
           ELSE RoundResult(t, k, o, tk[t].q,
                            [heap EXCEPT ![o].ctx = Append(@, AssistantTurn(ai_answer))],
                            st, ai_answer, <<>>)

\* -------------------------------------------------------- control commands
\* _handle_game_turn finds no game state for the key: the input is dropped
IgnoredNoSession(k, w) ==
    /\ w # 0
    /\ Path(k, w)
    /\ game_states[k] = 0
    /\ Commit(game_states, heap, st, tk, USER_SESSIONS, <<>>)

\* the start command typed while the waiter of a running game listens
StartWhileActive(k, w) ==
    /\ w # 0
    /\ Path(k, w)
    /\ game_states[k] # 0
    /\ LET h1 == StoreController(k, w) IN
       Commit(game_states, h1, Keep(st, h1[game_states[k]].controller), tk,
              USER_SESSIONS, <<Note("in_progress", k)>>)

EndBegin(k, w) ==
    /\ Path(k, w)
    /\ game_states[k] # 0
    /\ \E t \in Turns : tk[t].pc = "idle"
    /\ LET t == FreeTurn
           o == game_states[k]
           h1 == StoreController(k, w)
       IN  Commit(game_states, h1, Acquire(st, w, t),
                  Suspend(t, "end_send", k, o, NoText, NoText), USER_SESSIONS,
                  <<Msg("end_summary", k, h1[o].rec.answer, h1[o].question_count, 0)>>)

EndCleanup(t) == tk[t].pc = "end_send" /\ TurnCleanup(t)

\* end, force-end, reveal and change-question typed when no game runs
NoGame(k) ==
    /\ Path(k, 0)
    /\ game_states[k] = 0
    /\ Commit(game_states, heap, st, tk, USER_SESSIONS, <<Note("no_game", k)>>)

\* a force-end that sweeps the whole store
ForceEndsEveryGame(k, w) ==
    /\ Path(k, w)
    /\ game_states[k] # 0
    /\ LET ks == {j \in Keys : game_states[j] # 0}
           h1 == StoreController(k, w)
       IN  Commit(_cleanup_game_states(ks), h1, _cleanup_starters(st, h1, ks), tk,
                  _cleanup_waiters(USER_SESSIONS, h1, ks), <<Note("force_ended", k)>>)

ForceEnd(k, w) ==
    /\ Path(k, w)
    /\ game_states[k] # 0
    /\ LET ks == {k}
           h1 == StoreController(k, w)
       IN  Commit(_cleanup_game_states(ks), h1, _cleanup_starters(st, h1, ks), tk,
                  _cleanup_waiters(USER_SESSIONS, h1, ks), <<Note("force_ended", k)>>)

Reveal(k, w) ==
    /\ Path(k, w)
    /\ game_states[k] # 0
    /\ LET o == game_states[k] IN
       Commit(game_states, StoreController(k, w), st, tk, USER_SESSIONS,
              <<Msg("reveal", k, heap[o].rec.answer, heap[o].question_count, 0)>>)

Help(k, w) ==
    /\ Path(k, w)
    /\ w # 0 => game_states[k] # 0
    /\ Commit(game_states, StoreController(k, w), st, tk, USER_SESSIONS,
              <<Note("help", k)>>)

EmptyQuestion(k, w) ==
    /\ Path(k, w)
    /\ game_states[k] # 0
    /\ Commit(game_states, StoreController(k, w), st, tk, USER_SESSIONS,
              <<Note("usage", k)>>)

QuestionNoGame(k) ==
    /\ Path(k, 0)
    /\ game_states[k] = 0
    /\ Commit(game_states, heap, st, tk, USER_SESSIONS, <<Note("no_game_question", k)>>)

\* lines 831-847: the new record is installed
Install(h, o, r) ==
    [h EXCEPT ![o].rec = r,
              ![o].question_count = 0,
              ![o].ctx = IF provider THEN <<SystemTurn(r.question, r.answer)>> ELSE <<>>]

change_question(k, w) ==
    /\ Path(k, w)
    /\ game_states[k] # 0
    /\ LET o == game_states[k]
           h1 == StoreController(k, w)
       IN  \E r \in ChangeLoop(0, NoRec, h1[o].rec.question) :
              IF ~Usable(r)
              THEN Commit(game_states, h1, st, tk, USER_SESSIONS,
                          <<Note("change_failed", k)>>)
              ELSE Commit(game_states, Install(h1, o, r), Keep(st, h1[o].controller),
                          tk, USER_SESSIONS, <<Msg("change_ok", k, r.question, MaxQuestions, 0)>>)

\* an input that is no command of the game, typed while the waiter listens
OtherInput(k, w) ==
    /\ w # 0
    /\ Path(k, w)
    /\ game_states[k] # 0
    /\ LET h1 == StoreController(k, w) IN
       Commit(game_states, h1, Keep(st, h1[game_states[k]].controller), tk,
              USER_SESSIONS, <<>>)

ActiveKeys == {k \in Keys : game_states[k] # 0}

\* an admin command that ends the game of its own chat only
AdminEndsOwnGame(k, w) ==
    /\ Path(k, w)
    /\ game_states[k] # 0
    /\ LET h1 == StoreController(k, w) IN
       Commit(_cleanup_game_states({k}), h1, _cleanup_starters(st, h1, {k}), tk,
              _cleanup_waiters(USER_SESSIONS, h1, {k}),
              <<Msg("admin_done", k, NoText, Cardinality(ActiveKeys), 0)>>)

\* _admin_end_all_games, entered with event.is_admin() true
_admin_end_all_games(k, w) ==
    /\ Path(k, w)
    /\ w # 0 => game_states[k] # 0
    /\ IF ActiveKeys = {}
       THEN Commit(game_states, heap, st, tk, USER_SESSIONS, <<Note("admin_none", k)>>)
       ELSE LET ks == ActiveKeys
                h1 == StoreController(k, w)
            IN  Commit(_cleanup_game_states(ks), h1, _cleanup_starters(st, h1, ks), tk,
                       _cleanup_waiters(USER_SESSIONS, h1, ks),
                       <<Msg("admin_done", k, NoText, Cardinality(ks), 0)>>)

\* cmd_admin_end_all_turtle_games with event.is_admin() false
AdminDenied(k) ==
    /\ Path(k, 0)
    /\ Commit(game_states, heap, st, tk, USER_SESSIONS, <<Note("no_permission", k)>>)

\* the plugin is unloaded: afterwards the instance receives no more inputs,
\* while its suspended handlers and timers run on
terminate ==
    /\ alive
    /\ alive' = FALSE
    /\ LET ks == ActiveKeys IN
       Effect(_cleanup_game_states(ks), heap, _cleanup_starters(st, heap, ks), tk,
              _cleanup_waiters(USER_SESSIONS, heap, ks), <<>>)

\* ------------------------------------------------------------- scheduling
\* the chat whose handlers the single-chat specifications run
Chat == {"g1"}

NoStarter == \A s \in Starters : st[s].pc = "idle"
NoTurn == \A t \in Turns : tk[t].pc = "idle"

\* One chat.  A start handler and a question or end handler may be suspended
\* at the same time, and every command and the timer may run at each of
\* their awaits; a second start handler, or a second question or end handler,
\* is not entered while one is still running.
Next ==
    \/ \E k \in Chat : StartRejected(k)
    \/ \E k \in Chat, arg \in StartArgs : NoStarter /\ StartBegin(k, arg)
    \/ \E s \in Starters : StartResolve(s)
    \/ \E s \in Starters : StartSeed(s)
    \/ \E s \in Starters : StartWait(s)
    \/ Tick
    \/ \E s \in Starters : TimerExpire(s)
    \/ \E s \in Starters : StartFinally(s)
    \/ \E k \in Chat, q \in Questions, w \in Waiters : NoTurn /\ QAccept(k, q, w)
    \/ \E t \in Turns : QCheckCall(t)
    \/ \E t \in Turns, reply \in Replies \cup {Failure} : QCheckReturn(t, reply)
    \/ \E t \in Turns : QSuccessCleanup(t)
    \/ \E t \in Turns : QExhaustCleanup(t)
    \/ \E t \in Turns, reply \in Replies \cup {Failure} : QJudgeReturn(t, reply)
    \/ \E k \in Chat, w \in Waiters : IgnoredNoSession(k, w)
    \/ \E k \in Chat, w \in Waiters : StartWhileActive(k, w)
    \/ \E k \in Chat, w \in Waiters : NoTurn /\ EndBegin(k, w)
    \/ \E t \in Turns : EndCleanup(t)
    \/ \E k \in Chat : NoGame(k)
    \/ \E k \in Chat, w \in Waiters : ForceEnd(k, w)
    \/ \E k \in Chat, w \in Waiters : Reveal(k, w)
    \/ \E k \in Chat, w \in Waiters : Help(k, w)
    \/ \E k \in Chat, w \in Waiters : EmptyQuestion(k, w)
    \/ \E k \in Chat : QuestionNoGame(k)
    \/ \E k \in Chat, w \in Waiters : change_question(k, w)
    \/ \E k \in Chat, w \in Waiters : OtherInput(k, w)
    \/ \E k \in Chat, w \in Waiters : _admin_end_all_games(k, w)
    \/ \E k \in Chat : AdminDenied(k)
    \/ terminate

Spec == Init /\ [][Next]_vars

\* One chat in which start commands arrive while earlier start handlers are
\* still suspended; no question is asked.
NextStarts ==
    \/ \E k \in Chat : StartRejected(k)
    \/ \E k \in Chat, arg \in StartArgs : StartBegin(k, arg)
    \/ \E s \in Starters : StartResolve(s)
    \/ \E s \in Starters : StartSeed(s)
    \/ \E s \in Starters : StartWait(s)
    \/ Tick
    \/ \E s \in Starters : TimerExpire(s)
    \/ \E s \in Starters : StartFinally(s)
    \/ \E k \in Chat, w \in Waiters : IgnoredNoSession(k, w)
    \/ \E k \in Chat, w \in Waiters : StartWhileActive(k, w)
    \/ \E k \in Chat, w \in Waiters : ForceEnd(k, w)

SpecStarts == Init /\ [][NextStarts]_vars

\* One chat in which questions arrive while earlier question handlers are
\* still suspended.
NextTurns ==
    \/ \E k \in Chat : NoStarter /\ StartBegin(k, NoText)
    \/ \E s \in Starters : StartResolve(s)
    \/ \E s \in Starters : StartSeed(s)
    \/ \E s \in Starters : StartWait(s)
    \/ Tick
    \/ \E s \in Starters : TimerExpire(s)
    \/ \E s \in Starters : StartFinally(s)
    \/ \E k \in Chat, q \in Questions, w \in Waiters : QAccept(k, q, w)
    \/ \E t \in Turns : QCheckCall(t)
    \/ \E t \in Turns, reply \in Replies \cup {Failure} : QCheckReturn(t, reply)
    \/ \E t \in Turns : QSuccessCleanup(t)
    \/ \E t \in Turns : QExhaustCleanup(t)
    \/ \E t \in Turns, reply \in Replies \cup {Failure} : QJudgeReturn(t, reply)
    \/ \E k \in Chat, w \in Waiters : IgnoredNoSession(k, w)

InitTurns == Init /\ Len(bank) = 1

SpecTurns == InitTurns /\ [][NextTurns]_vars

\* context.get_using_provider() answers differently from now on: the host's
\* reasoning service was configured or withdrawn
SetProvider(b) ==
    /\ alive
    /\ provider # b
    /\ provider' = b
    /\ UNCHANGED <<bank, game_states, heap, st, tk, USER_SESSIONS, alive, pf>>
    /\ sent' = <<>>

\* One chat whose inputs all arrive through the registered waiter, one
\* handler at a time, while the reasoning service comes and goes.
NextProvider ==
    \/ \E b \in BOOLEAN : SetProvider(b)
    \/ \E k \in Chat : NoStarter /\ StartBegin(k, NoText)
    \/ \E s \in Starters : StartResolve(s)
    \/ \E s \in Starters : StartSeed(s)
    \/ \E s \in Starters : StartWait(s)
    \/ \E k \in Chat, q \in Questions, w \in Starters : NoTurn /\ QAccept(k, q, w)
    \/ \E t \in Turns : QCheckCall(t)
    \/ \E t \in Turns, reply \in Replies \cup {Failure} : QCheckReturn(t, reply)
    \/ \E t \in Turns : QSuccessCleanup(t)
    \/ \E t \in Turns : QExhaustCleanup(t)
    \/ \E t \in Turns, reply \in Replies \cup {Failure} : QJudgeReturn(t, reply)
    \/ \E k \in Chat, w \in Starters : change_question(k, w)
    \/ \E k \in Chat, w \in Starters : ForceEnd(k, w)

SpecProvider == Init /\ [][NextProvider]_vars

\* --------------------------------------------------- unexpected failures
\* event.send raises while start_turtle_soup sends the introduction (line
\* 276): the statement stands before the try of line 297, so the exception
\* leaves the handler and neither except nor finally runs
StartIntroFails(s) ==
    /\ st[s].pc = "intro"
    /\ Commit(game_states, heap, [st EXCEPT ![s] = IdleSt], tk, USER_SESSIONS, <<>>)

FailingSends == {"chk_send", "succ_send", "exh_send"}

\* event.send raises inside _handle_turtle_soup_question outside its try
\* (lines 683, 703, 720).  Entered from cmd_turtle_soup_question the exception
\* leaves the plugin.  Entered from the waiter it stops the waiter's future
\* with the exception: start_turtle_soup sends MSG_UNKNOWN_ERROR (line 306)
\* and its finally block is still to run.
TurnFails(t) ==
    /\ tk[t].pc \in FailingSends
    /\ LET k == tk[t].key IN
       IF \E w \in Starters : st[w].lock = t
       THEN LET w == CHOOSE w \in Starters : st[w].lock = t IN
            Commit(game_states, heap,
                   [st EXCEPT ![w] = [IdleSt EXCEPT !.pc = "timeout_send", !.key = k]],
                   Done(t), [USER_SESSIONS EXCEPT ![k] = 0],
                   <<Note("unknown_error", k)>>)
       ELSE Commit(game_states, heap, st, Done(t), USER_SESSIONS, <<>>)

\* One chat, one start handler and one question handler at a time, in which
\* the sending of a message may fail; no send fails any more once the count
\* of a session has passed the budget by two.
NextFailures ==
    \/ \E k \in Chat : StartRejected(k)
    \/ \E k \in Chat : NoStarter /\ StartBegin(k, NoText)
    \/ \E s \in Starters : StartResolve(s)
    \/ \E s \in Starters : StartSeed(s)
    \/ \E s \in Starters : StartWait(s)
    \/ \E s \in Starters : StartIntroFails(s)
    \/ \E s \in Starters : StartFinally(s)
    \/ \E k \in Chat, q \in Questions, w \in Waiters : NoTurn /\ QAccept(k, q, w)
    \/ \E t \in Turns : QCheckCall(t)
    \/ \E t \in Turns, reply \in Replies \cup {Failure} : QCheckReturn(t, reply)
    \/ \E t \in Turns : QSuccessCleanup(t)
    \/ \E t \in Turns : QExhaustCleanup(t)
    \/ \E t \in Turns, reply \in Replies \cup {Failure} : QJudgeReturn(t, reply)
    \/ \E t \in Turns : /\ tk[t].pc \in FailingSends
                          /\ heap[tk[t].obj].question_count <= MaxQuestions + 1
                          /\ TurnFails(t)

SpecFailures == Init /\ [][NextFailures]_vars

\* no start handler of chat k is running
NoStarterFor(k) == \A s \in Starters : st[s].key # k

\* Two chats, each with at most one game, and the admin command typed in
\* either of them by an admin or by somebody else.
NextAdmin ==
    \/ \E k \in Keys : NoStarterFor(k) /\ StartBegin(k, NoText)
    \/ \E s \in Starters : StartResolve(s)
    \/ \E s \in Starters : StartSeed(s)
    \/ \E s \in Starters : StartWait(s)
    \/ Tick
    \/ \E s \in Starters : TimerExpire(s)
    \/ \E s \in Starters : StartFinally(s)
    \/ \E k \in Keys, w \in Waiters : IgnoredNoSession(k, w)
    \/ \E k \in Keys, w \in Waiters : OtherInput(k, w)
    \/ \E k \in Keys, w \in Waiters : _admin_end_all_games(k, w)
    \/ \E k \in Keys : AdminDenied(k)

SpecAdmin == Init /\ [][NextAdmin]_vars

\* the chat next to Chat
Neighbour == Keys \ Chat

\* Two chats with a reasoning service and a bank of two records.  In Chat
\* every operation of a game occurs and its timer runs out; in the
\* neighbour chat a game is started and plain questions are asked.  The
\* inputs of a game arrive through its waiter; one start handler per chat
\* and one question or end handler at a time, the two chats interleaved.
NextKeys ==
    \/ \E k \in Keys : NoStarterFor(k) /\ StartBegin(k, NoText)
    \/ \E s \in Starters : StartResolve(s)
    \/ \E s \in Starters : StartSeed(s)
    \/ Tick
    \/ \E s \in Starters : st[s].key \in Chat /\ TimerExpire(s)
    \/ \E s \in Starters : StartFinally(s)
    \/ \E k \in Chat, q \in Questions, w \in Starters : NoTurn /\ QAccept(k, q, w)
    \/ \E k \in Neighbour, w \in Starters : NoTurn /\ QAccept(k, QPlain, w)
    \/ \E t \in Turns : QCheckCall(t)
    \/ \E t \in Turns, reply \in Replies \cup {Failure} : QCheckReturn(t, reply)
    \/ \E t \in Turns : QSuccessCleanup(t)
    \/ \E t \in Turns : QExhaustCleanup(t)
    \/ \E t \in Turns, reply \in Replies \cup {Failure} : QJudgeReturn(t, reply)
    \/ \E k \in Chat, w \in Starters : NoTurn /\ EndBegin(k, w)
    \/ \E t \in Turns : EndCleanup(t)
    \/ \E k \in Chat, w \in Starters : ForceEnd(k, w)
    \/ \E k \in Chat, w \in Starters : Reveal(k, w)
    \/ \E k \in Chat, w \in Starters : change_question(k, w)
    \/ \E k \in Chat, w \in Starters : OtherInput(k, w)

InitKeys == Init /\ bank = <<Rec1, Rec2>> /\ provider

SpecKeys == InitKeys /\ [][NextKeys]_vars

\* ------------------------------------------------------------ sanity checks
TypeOK ==
    /\ \A k \in Keys : game_states[k] \in Objs \cup {0}
    /\ \A k \in Keys : USER_SESSIONS[k] # 0 =>
          st[USER_SESSIONS[k]].pc = "waiting" /\ st[USER_SESSIONS[k]].key = k
    /\ \A k \in Keys : game_states[k] # 0 =>
          LET c == heap[game_states[k]].controller IN
          c # 0 => st[c].pc \in {"waiting", "timeout_send"} /\ st[c].key = k
    /\ \A s \in Starters : st[s].lock # 0 => tk[st[s].lock].pc # "idle"

\* ---------------------------------------------------------- pure functions
\* the characters of the texts the pure functions are applied to: two
\* letters, one of them upper case, the blank, and the two characters of a
\* stop word
Alphabet == {"a", "B", " ", "ran", "hou"}

Texts == UNION {[1..n -> Alphabet] : n \in 0..MaxTextLen}

InitCheck ==
    /\ bank = <<Rec1>>
    /\ provider = FALSE
    /\ game_states = [k \in Keys |-> 0]
    /\ heap = [o \in Objs |-> NullObj]
    /\ st = [s \in Starters |-> IdleSt]
    /\ tk = [t \in Turns |-> IdleTk]
    /\ USER_SESSIONS = [k \in Keys |-> 0]
    /\ sent = <<>>
    /\ alive = TRUE
    /\ \E player_guess \in Texts, answer \in Texts :
          pf = [op |-> "input", a |-> player_guess, b |-> answer, r |-> NoText]

\* the fallback of _is_answer_correct is applied to a guess and a solution
SimpleAnswerCheck ==
    /\ pf.op = "input"
    /\ pf' = [pf EXCEPT !.op = "_simple_answer_check",
                        !.r = _simple_answer_check(pf.a, pf.b)]
    /\ UNCHANGED <<bank, provider, game_states, heap, st, tk, USER_SESSIONS, sent, alive>>

NextCheck == SimpleAnswerCheck

SpecCheck == InitCheck /\ [][NextCheck]_vars

\* ------------------------------------------------------------ bank parsing
StartsWith(sub, s) == Len(sub) <= Len(s) /\ SubSeq(s, 1, Len(sub)) = sub

\* where sub first occurs in s, 0 when it does not
IndexOf(sub, s) ==
    IF Contains(sub, s)
    THEN Min({i \in 1..(Len(s) - Len(sub) + 1) : SubSeq(s, i, i + Len(sub) - 1) = sub})
    ELSE 0

\* str.split(sep)
RECURSIVE SplitBy(_, _)
SplitBy(s, sep) ==
    LET i == IndexOf(sep, s) IN
    IF i = 0 THEN <<s>>
    ELSE <<SubSeq(s, 1, i - 1)>> \o SplitBy(SubSeq(s, i + Len(sep), Len(s)), sep)

Digits == {"0", "1", "2", "3", "4", "5", "6", "7", "8", "9"}

DigitVal(c) ==
    CASE c = "0" -> 0 [] c = "1" -> 1 [] c = "2" -> 2 [] c = "3" -> 3 [] c = "4" -> 4
      [] c = "5" -> 5 [] c = "6" -> 6 [] c = "7" -> 7 [] c = "8" -> 8 [] c = "9" -> 9

RECURSIVE IntOf(_)
IntOf(s) == IF s = <<>> THEN 0 ELSE 10 * IntOf(SubSeq(s, 1, Len(s) - 1)) + DigitVal(s[Len(s)])

\* int(value) of an unsigned text: <<the number>>, or <<>> for ValueError
ValueError == <<>>
ParseInt(value) ==
    LET v == Strip(value) IN
    IF v # <<>> /\ \A i \in 1..Len(v) : v[i] \in Digits THEN <<IntOf(v)>> ELSE ValueError

KeyID == <<"I", "D">>
KeyStory == <<"tang", "mian">>
KeySolution == <<"tang", "di">>
KeyDifficulty == <<"nan", "du4">>
RecordKeys == {KeyID, KeyStory, KeySolution, KeyDifficulty}
None == <<"None">>
Colon == <<":">>
Hash == <<"#">>
NL == <<"nl">>
Delimiter == <<"-", "-", "-">>

\* the loop of lines 161-165: question_info after the lines from i on
RECURSIVE QuestionInfo(_, _, _)
QuestionInfo(lines, i, question_info) ==
    IF i > Len(lines) THEN question_info
    ELSE LET line == Strip(lines[i])
             c == IndexOf(Colon, line)
             key == Strip(SubSeq(line, 1, c - 1))
             value == Strip(SubSeq(line, c + 1, Len(line)))
         IN  IF c # 0 /\ ~StartsWith(Hash, line) /\ key \in RecordKeys
             THEN QuestionInfo(lines, i + 1, [question_info EXCEPT ![key] = value])
             ELSE QuestionInfo(lines, i + 1, question_info)

\* what _parse_question_block returns for None
NoData == <<>>

\* <<the record of a block>>, or NoData
_parse_question_block(block) ==
    LET question_info == QuestionInfo(SplitBy(block, NL), 1, [k \in RecordKeys |-> None])
        difficulty == IF question_info[KeyDifficulty] = None THEN <<3>>
                      ELSE ParseInt(question_info[KeyDifficulty])
    IN  IF /\ question_info[KeyID] # None
           /\ question_info[KeyStory] # None
           /\ question_info[KeySolution] # None
        THEN IF difficulty = ValueError THEN NoData
             ELSE <<[id |-> question_info[KeyID], question |-> question_info[KeyStory],
                     answer |-> question_info[KeySolution], difficulty |-> difficulty[1]]>>
        ELSE NoData

_get_default_questions ==
    << [id |-> Rec1.id, question |-> Rec1.question, answer |-> Rec1.answer, difficulty |-> 3],
       [id |-> Rec2.id, question |-> Rec2.question, answer |-> Rec2.answer, difficulty |-> 4] >>

\* the loop of lines 134-141 over the blocks from i on
RECURSIVE ParsedBlocks(_, _)
ParsedBlocks(question_blocks, i) ==
    IF i > Len(question_blocks) THEN <<>>
    ELSE LET block == Strip(question_blocks[i]) IN
         IF block = <<>> \/ StartsWith(Hash, block)
         THEN ParsedBlocks(question_blocks, i + 1)
         ELSE LET question_data == _parse_question_block(block) IN
              IF question_data # NoData
              THEN question_data \o ParsedBlocks(question_blocks, i + 1)
              ELSE ParsedBlocks(question_blocks, i + 1)

\* what open() and read() may do instead of returning the text
FileNotFound == <<"FileNotFoundError">>
Unreadable == <<"Exception">>

\* a parser without the built-in fallback
ParseWithoutDefault(source) ==
    IF source \in {FileNotFound, Unreadable} THEN <<>>
    ELSE ParsedBlocks(SplitBy(Strip(source), Delimiter), 1)

_parse_questions_bank(source) ==
    IF source \in {FileNotFound, Unreadable} THEN _get_default_questions
    ELSE LET questions == ParsedBlocks(SplitBy(Strip(source), Delimiter), 1) IN
         IF questions = <<>> THEN _get_default_questions ELSE questions

\* the lines a block of a source is made of, in the order they are written
BlockLines ==
    << KeyID \o Colon \o <<"1">>,
       KeyStory \o Colon \o <<"q">>,
       KeyStory \o Colon,
       KeySolution \o Colon \o <<" ", "a">>,
       KeyDifficulty \o Colon \o <<"9">>,
       KeyDifficulty \o Colon \o <<"x">> >>

RECURSIVE JoinLines(_, _)
JoinLines(S, i) ==
    IF i > Len(BlockLines) THEN <<>>
    ELSE IF i \in S THEN BlockLines[i] \o NL \o JoinLines(S, i + 1)
    ELSE JoinLines(S, i + 1)

\* the blocks: every choice of lines after an ID line, the empty block, a
\* block without ID line and a block that is commented out
BlockTexts ==
    {JoinLines({1} \cup S, 1) : S \in SUBSET (2..Len(BlockLines))}
        \cup {JoinLines({}, 1), JoinLines({2, 4}, 1), Hash \o JoinLines({1, 2, 4}, 1)}

RECURSIVE JoinBlocks(_)
JoinBlocks(bs) ==
    IF bs = <<>> THEN <<>>
    ELSE IF Len(bs) = 1 THEN bs[1]
    ELSE bs[1] \o Delimiter \o NL \o JoinBlocks(Tail(bs))

BlockSeqs == UNION {[1..n -> BlockTexts] : n \in 0..MaxBlocks}

InitParse ==
    /\ bank = <<Rec1>>
    /\ provider = FALSE
    /\ game_states = [k \in Keys |-> 0]
    /\ heap = [o \in Objs |-> NullObj]
    /\ st = [s \in Starters |-> IdleSt]
    /\ tk = [t \in Turns |-> IdleTk]
    /\ USER_SESSIONS = [k \in Keys |-> 0]
    /\ sent = <<>>
    /\ alive = TRUE
    /\ \/ \E bs \in BlockSeqs :
             pf = [op |-> "source", a |-> JoinBlocks(bs), b |-> bs, r |-> NoText]
       \/ \E failure \in {FileNotFound, Unreadable} :
             pf = [op |-> "source", a |-> failure, b |-> <<>>, r |-> NoText]

\* __init__ loads the bank
ParseQuestionsBank ==
    /\ pf.op = "source"
    /\ pf' = [pf EXCEPT !.op = "_parse_questions_bank", !.r = _parse_questions_bank(pf.a)]
    /\ UNCHANGED <<bank, provider, game_states, heap, st, tk, USER_SESSIONS, sent, alive>>

NextParse == ParseQuestionsBank

SpecParse == InitParse /\ [][NextParse]_vars

\* the pieces a reply of the reasoning service is made of: the labels, the
\* words the normalization looks for, a blank and a character it ignores
Fragments ==
    Range(valid_responses) \cup NegativeWords \cup PositiveWords \cup UnrelatedWords
        \cup {<<" ">>, <<"x">>}

RawReplies == {Concat(f) : f \in UNION {[1..n -> Fragments] : n \in 0..MaxTextLen}}

\* the questions put to the fallback judge
ShortTexts == UNION {[1..n -> Alphabet] : n \in 0..(MaxTextLen - 1)}

InitJudge ==
    /\ bank = <<Rec1>>
    /\ provider = FALSE
    /\ game_states = [k \in Keys |-> 0]
    /\ heap = [o \in Objs |-> NullObj]
    /\ st = [s \in Starters |-> IdleSt]
    /\ tk = [t \in Turns |-> IdleTk]
    /\ USER_SESSIONS = [k \in Keys |-> 0]
    /\ sent = <<>>
    /\ alive = TRUE
    /\ \/ \E completion_text \in RawReplies :
             pf = [op |-> "reply", a |-> completion_text, b |-> NoText, r |-> NoText]
       \/ \E player_question \in ShortTexts, answer \in Texts :
             pf = [op |-> "question", a |-> player_question, b |-> answer, r |-> NoText]

\* _get_ai_judge_response with a provider, after text_chat returned
JudgeReply ==
    /\ pf.op = "reply"
    /\ pf' = [pf EXCEPT !.op = "_get_ai_judge_response",
                        !.r = _validate_ai_response(Strip(pf.a))]
    /\ UNCHANGED <<bank, provider, game_states, heap, st, tk, USER_SESSIONS, sent, alive>>

\* _get_ai_judge_response without a provider
SimpleJudge ==
    /\ pf.op = "question"
    /\ pf' = [pf EXCEPT !.op = "_simple_judge", !.r = _simple_judge(pf.a, pf.b)]
    /\ UNCHANGED <<bank, provider, game_states, heap, st, tk, USER_SESSIONS, sent, alive>>

NextJudge == JudgeReply \/ SimpleJudge

SpecJudge == InitJudge /\ [][NextJudge]_vars

\* ------------------------------------------------- the fallback judge
\* the characters of solutions and questions put to the fallback judge
Letters == {"a", "B", " "}

FallbackAnswers == UNION {[1..n -> Letters] : n \in 1..MaxTextLen}

\* the submissions put to a game without reasoning service: short texts and
\* one guess
FallbackQuestions == UNION {[1..n -> Letters] : n \in 1..(MaxTextLen - 1)} \cup {QGuess}

\* a bank of one record whose solution is any text
InitFallback ==
    /\ \E answer \in FallbackAnswers :
          bank = <<[id |-> <<"0", "0", "1">>, question |-> <<"s", "1">>, answer |-> answer]>>
    /\ provider = FALSE
    /\ game_states = [k \in Keys |-> 0]
    /\ heap = [o \in Objs |-> NullObj]
    /\ st = [s \in Starters |-> IdleSt]
    /\ tk = [t \in Turns |-> IdleTk]
    /\ USER_SESSIONS = [k \in Keys |-> 0]
    /\ sent = <<>>
    /\ alive = TRUE
    /\ pf = NoPf

\* One chat without reasoning service, one start handler and one question
\* handler at a time.
NextFallback ==
    \/ \E k \in Chat : NoStarter /\ StartBegin(k, NoText)
    \/ \E s \in Starters : StartResolve(s)
    \/ \E s \in Starters : StartSeed(s)
    \/ \E s \in Starters : StartWait(s)
    \/ \E k \in Chat, q \in FallbackQuestions, w \in Waiters : NoTurn /\ QAccept(k, q, w)
    \/ \E t \in Turns : QCheckCall(t)
    \/ \E t \in Turns : QExhaustCleanup(t)
    \/ \E k \in Chat, w \in Waiters : ForceEnd(k, w)

SpecFallback == InitFallback /\ [][NextFallback]_vars

\* ------------------------------------------------------------------ claims
Emitted(types) == \E i \in DOMAIN sent : sent[i].type \in types

EmittedFor(types, k) == \E i \in DOMAIN sent : sent[i].type \in types /\ sent[i].key = k

\* the pcs of a question-submission handler that has not returned yet
TurnPcs == {"chk_send", "checking", "succ_send", "exh_send", "judging"}

\* C1: whatever the interleaving of start commands on one key, a start never
\* creates a session for a key that already has one: the session found in
\* the store is never replaced by another, it can only be removed.
C1_StartNeverReplaces ==
    [][\A k \in Keys :
          game_states[k] # 0 => game_states'[k] \in {0, game_states[k]}]_vars

\* C2: at most one question-submission handler is in flight per key.
C2_OneTurnInFlight ==
    \A k \in Keys :
        Cardinality({t \in Turns : tk[t].key = k /\ tk[t].pc \in TurnPcs}) <= 1

\* C3: a question handler that returns from its AnswerChecker or judge call
\* after its session left the store emits no success summary, no
\* exhausted-budget summary and no round result, and leaves the store as it is.
C3_ResumeAfterRemoval ==
    [][\A t \in Turns :
          ( /\ tk[t].pc \in {"checking", "judging"}
            /\ tk'[t].pc # tk[t].pc
            /\ game_states[tk[t].key] # tk[t].obj )
          => /\ game_states' = game_states
             /\ ~Emitted({"success", "exhausted", "round"})']_vars

\* C4: a removal cancels the session's timer, so a timeout summary is only
\* ever emitted for a key whose session is still in the store.
C4_NoTimeoutAfterRemoval ==
    [][\A k \in Keys : EmittedFor({"timeout"}, k)' => game_states[k] # 0]_vars

\* the session stored for key k, and that it is the same dict before and
\* after the step
Session(k) == heap[game_states[k]]

Stays(k) == game_states[k] # 0 /\ game_states'[k] = game_states[k]

\* the step accepts a question submission for key k: a handler leaves idle
\* for one of the question pcs, or the submission is answered at once (no
\* provider, plain question) and only the round result shows it
Accepted(k) ==
    \/ \E t \in Turns : tk[t].pc = "idle" /\ tk'[t].pc \in TurnPcs /\ tk'[t].key = k
    \/ tk' = tk /\ EmittedFor({"round"}, k)'

\* C5: a session that gets no input through its waiter keeps its timer
\* running down (nothing re-arms it); when the timer is at its deadline the
\* waiter emits exactly one timeout summary, a timeout summary is emitted by
\* nothing else, and when the start handler returns after it the key has no
\* session.
C5_TimeoutRemovesOnce ==
    [][/\ \A s \in Starters :
             /\ ( /\ st[s].pc = "waiting" /\ st'[s].pc = "waiting"
                  /\ Stays(st[s].key)
                  /\ Session(st[s].key).controller = 0
                  /\ Session(st[s].key)'.controller = 0 )
                => st'[s].rem <= st[s].rem
             /\ (st[s].pc = "waiting" /\ st'[s].pc = "timeout_send")
                => /\ st[s].rem = 0
                   /\ Cardinality({i \in DOMAIN sent' : sent'[i].type = "timeout"}) = 1
                   /\ EmittedFor({"timeout"}, st[s].key)'
             /\ (st[s].pc = "timeout_send" /\ st'[s].pc # "timeout_send")
                => /\ game_states'[st[s].key] = 0
                   /\ ~Emitted({"timeout"})'
       /\ Emitted({"timeout"})'
          => \E s \in Starters : st[s].pc = "waiting" /\ st'[s].pc = "timeout_send"]_vars

\* a session that never got an input has timed out: its summary is being sent
C5_Witness ==
    \E s \in Starters :
        /\ st[s].pc = "timeout_send"
        /\ game_states[st[s].key] # 0
        /\ Session(st[s].key).question_count = 0
        /\ Session(st[s].key).controller = 0
        /\ EmittedFor({"timeout"}, st[s].key)

\* C6: the count of a stored session changes only by +1, in a step that
\* accepts a question submission for its key, or to 0, in a change-question
\* step for its key; every accepted submission adds exactly 1; a session
\* enters the store with count 0.
C6_CountSteps ==
    [][\A k \in Keys :
          /\ (Stays(k) /\ Session(k)'.question_count # Session(k).question_count)
             => \/ /\ Session(k)'.question_count = Session(k).question_count + 1
                   /\ Accepted(k)
                \/ /\ Session(k)'.question_count = 0
                   /\ EmittedFor({"change_ok"}, k)'
          /\ Accepted(k)
             => /\ Stays(k)
                /\ Session(k)'.question_count = Session(k).question_count + 1
          /\ (game_states'[k] # 0 /\ game_states'[k] # game_states[k])
             => Session(k)'.question_count = 0]_vars

\* a session has taken one submission more than its budget
C6_Witness ==
    \E k \in Keys :
        game_states[k] # 0 /\ Session(k).question_count = MaxQuestions + 1

\* C7: a submission that is not judged correct and finds the count of its
\* session, itself included, above max_questions gets the exhausted-budget
\* summary and no round result, whether it is a plain question (decided on
\* acceptance) or a guess (decided when the AnswerChecker has answered); when
\* its handler returns the key has no session.
C7_ExhaustedBudget ==
    [][/\ \A k \in Keys :
             ( /\ Accepted(k)
               /\ Session(k).question_count >= MaxQuestions
               /\ ~\E t \in Turns : tk[t].pc = "idle" /\ tk'[t].pc = "chk_send" )
             => /\ EmittedFor({"exhausted"}, k)'
                /\ ~Emitted({"round"})'
                /\ \E t \in Turns : tk'[t].pc = "exh_send" /\ tk'[t].key = k
       /\ \A t \in Turns :
             /\ ( /\ tk[t].pc \in {"chk_send", "checking"}
                  /\ tk'[t].pc \notin {tk[t].pc, "checking", "succ_send"}
                  /\ game_states[tk[t].key] = tk[t].obj
                  /\ heap[tk[t].obj].question_count > MaxQuestions )
                => /\ tk'[t].pc = "exh_send"
                   /\ EmittedFor({"exhausted"}, tk[t].key)'
                   /\ ~Emitted({"round"})'
             /\ (tk[t].pc = "exh_send" /\ tk'[t].pc # "exh_send")
                => game_states'[tk[t].key] = 0]_vars

\* the submission after the last one of the budget was a guess, it was judged
\* not correct, and the exhausted-budget summary is being sent
C7_Witness ==
    \E t \in Turns :
        /\ tk[t].pc = "exh_send"
        /\ is_a_guess(tk[t].q)
        /\ game_states[tk[t].key] = tk[t].obj
        /\ heap[tk[t].obj].question_count = MaxQuestions + 1
        /\ EmittedFor({"exhausted"}, tk[t].key)

\* C8: with a bank of one record change-question reports failure and leaves
\* the record, the count and the context of the session as they were.
C8_SingleRecordChangeFails ==
    [][\A k \in Keys :
          (Len(bank) = 1 /\ EmittedFor({"change_ok", "change_failed"}, k)')
          => /\ EmittedFor({"change_failed"}, k)'
             /\ Stays(k)
             /\ Session(k)'.rec = Session(k).rec
             /\ Session(k)'.question_count = Session(k).question_count
             /\ Session(k)'.ctx = Session(k).ctx]_vars

\* C9: with a bank of several records the record change-question installs
\* differs from the one that was current, whatever the samples were.
C9_InstalledRecordDiffers ==
    [][\A k \in Keys :
          (Len(bank) > 1 /\ EmittedFor({"change_ok"}, k)')
          => Session(k)'.rec # Session(k).rec]_vars

\* the solution's tokens longer than one character that are no stop words
MeaningfulTokens(answer) ==
    {w \in Range(Split(Lower(answer))) : Len(w) > 1 /\ w \notin stop_words}

HalfOverlap(player_guess, answer) ==
    LET m == MeaningfulTokens(answer) IN
    /\ m # {}
    /\ 2 * Cardinality({w \in m : Contains(w, Lower(player_guess))}) >= Cardinality(m)

\* C10: the fallback answers true exactly when the solution has a meaningful
\* token and at least half of its meaningful tokens occur in the guess.
C10_FallbackIsHalfOverlap ==
    pf.op = "_simple_answer_check" => (pf.r <=> HalfOverlap(pf.a, pf.b))

\* C11: whatever the reply of the reasoning service, the label the judge
\* returns is one of the six of the vocabulary, on the service path and on
\* the fallback path.
C11_LabelInVocabulary ==
    pf.op \in {"_get_ai_judge_response", "_simple_judge"}
    => pf.r \in Range(valid_responses)

\* a reply that holds no label was normalized to one through a negative word
C11_Witness ==
    /\ pf.op = "_get_ai_judge_response"
    /\ FirstValid(pf.a, 1) = <<>>
    /\ pf.r = LblNo

\* C12: every record the parser puts into the bank has a non-empty story,
\* a non-empty solution and a difficulty from 1 to 5.
C12_ParsedRecordsWellFormed ==
    pf.op = "_parse_questions_bank"
    => \A i \in 1..Len(pf.r) :
          /\ pf.r[i].question # NoText
          /\ pf.r[i].answer # NoText
          /\ pf.r[i].difficulty \in 1..5

\* the records of the blocks of a source that yield one, in their order
RECURSIVE RecordsOf(_)
RecordsOf(bs) ==
    IF bs = <<>> THEN <<>>
    ELSE LET block == Strip(Head(bs)) IN
         IF block = <<>> \/ StartsWith(Hash, block)
         THEN RecordsOf(Tail(bs))
         ELSE _parse_question_block(block) \o RecordsOf(Tail(bs))

\* C13: the loaded bank is never empty; a source that is missing, unreadable
\* or without a valid record gives the built-in set of at least two records;
\* otherwise the bank is exactly the records of the valid blocks, in order,
\* whatever malformed blocks stand between them.
C13_BankNeverEmpty ==
    pf.op = "_parse_questions_bank"
    => /\ Len(pf.r) >= 1
       /\ Len(_get_default_questions) >= 2
       /\ (pf.a \in {FileNotFound, Unreadable} \/ RecordsOf(pf.b) = <<>>)
          => pf.r = _get_default_questions
       /\ (pf.a \notin {FileNotFound, Unreadable} /\ RecordsOf(pf.b) # <<>>)
          => pf.r = RecordsOf(pf.b)

\* a source of two blocks, one of them malformed, gave a bank of one record
C13_Witness ==
    /\ pf.op = "_parse_questions_bank"
    /\ Len(pf.b) = 2
    /\ Len(pf.r) = 1
    /\ pf.r # _get_default_questions
    /\ \E i \in 1..2 : Strip(pf.b[i]) # <<>> /\ _parse_question_block(Strip(pf.b[i])) = NoData

\* the step handles a control command or a question submission for the
\* stored session of key k
Input(k) ==
    \/ EmittedFor({"in_progress", "reveal", "help", "change_ok"}, k)'
    \/ Accepted(k)

\* C14: every input a stored session accepts re-arms its timer: after a
\* control command or a question submission handled while the session's
\* waiter is waiting, the waiter's timer stands at the full session timeout.
C14_InputResetsTimer ==
    [][\A k \in Keys, w \in Starters :
          ( /\ Stays(k)
            /\ USER_SESSIONS[k] = w
            /\ st[w].pc = "waiting" /\ st'[w].pc = "waiting"
            /\ Input(k) )
          => st'[w].rem = SessionTimeout]_vars

\* C15: in every state, a stored session whose conversation context is not
\* empty has as its first context entry the system turn built from the
\* record the session holds now.
C15_ContextStartsWithSystemTurn ==
    \A k \in Keys :
        (game_states[k] # 0 /\ Session(k).ctx # <<>>)
        => Session(k).ctx[1] = SystemTurn(Session(k).rec.question, Session(k).rec.answer)

\* C16: a judge call that fails is caught: the step that handles the failure
\* sends the service-unavailable notice to the chat, removes no session from
\* the store, and leaves the record of the chat's session as it was.
C16_JudgeFailureKeepsSession ==
    [][\A t \in Turns, k \in Keys :
          (QJudgeReturn(t, Failure) /\ tk[t].key = k)
          => /\ EmittedFor({"ai_error"}, k)'
             /\ game_states' = game_states
             /\ game_states[k] # 0 => Session(k)'.rec = Session(k).rec]_vars

\* the notice was sent and the session is still stored, its turn finished
C16_Witness ==
    /\ EmittedFor({"ai_error"}, "g1")
    /\ game_states["g1"] # 0
    /\ Session("g1").question_count = 1
    /\ NoTurn

\* a send raises in a handler that works for key k
FailureFor(k) ==
    \/ \E s \in Starters : st[s].key = k /\ StartIntroFails(s)
    \/ \E t \in Turns : tk[t].key = k /\ TurnFails(t)

\* C17: a failure that is not a reasoning-service failure ends the session:
\* the step in which it is raised sends the generic failure notice to the
\* chat, and the key's session is out of the store or the start handler
\* that will remove it stands before its finally block.
C17_FailureRemovesSession ==
    [][\A k \in Keys :
          FailureFor(k)
          => /\ EmittedFor({"unknown_error"}, k)'
             /\ \/ game_states'[k] = 0
                \/ \E s \in Starters : st'[s].pc = "timeout_send" /\ st'[s].key = k]_vars

\* C18: when a start handler resolves its record, an explicit id (already
\* padded to three digits) that no record of the bank carries is answered
\* with the not-found error and the store is left as it was; and whenever
\* the step stores a session, that session has question_count 0 and holds a
\* record of the bank, the one carrying the padded id when an id was given.
C18_StartLooksUpRecord ==
    [][\A s \in Starters, k \in Keys :
          (st[s].pc = "disclaimer" /\ st'[s].pc # "disclaimer" /\ st[s].key = k)
          => /\ (st[s].arg # NoText /\ \A i \in 1..Len(bank) : bank[i].id # st[s].arg)
                => (EmittedFor({"not_found"}, k)' /\ game_states' = game_states)
             /\ game_states'[k] # game_states[k]
                => /\ game_states'[k] # 0
                   /\ Session(k)'.question_count = 0
                   /\ Session(k)'.rec \in Range(bank)
                   /\ st[s].arg # NoText => Session(k)'.rec.id = st[s].arg]_vars

\* a start with an id of no record was refused and the chat has no session
C18_Witness ==
    /\ EmittedFor({"not_found"}, "g1")
    /\ game_states["g1"] = 0
    /\ NoStarter

\* C19: the admin command typed without admin rights (refused by the
\* command handler, or passed over by the waiter as an input that is no
\* command) changes no entry of the store; run with admin rights it empties
\* the store and reports the number of sessions the store held.
C19_AdminEndAll ==
    [][/\ \A k \in Keys : AdminDenied(k) => game_states' = game_states
       /\ \A k \in Keys, w \in Waiters : OtherInput(k, w) => game_states' = game_states
       /\ \A k \in Keys, w \in Waiters :
             (_admin_end_all_games(k, w) /\ ActiveKeys # {})
             => /\ \A j \in Keys : game_states'[j] = 0
                /\ \E i \in DOMAIN sent' :
                      /\ sent'[i].type = "admin_done"
                      /\ sent'[i].n = Cardinality(ActiveKeys)]_vars

\* the admin command has just ended the games of both chats
C19_Witness ==
    /\ \E i \in DOMAIN sent : sent[i].type = "admin_done" /\ sent[i].n = 2
    /\ \A k \in Keys : game_states[k] = 0

\* the reply of the answer check says that the guess is right
JudgedCorrect(reply) == reply # Failure /\ Contains(LblYes, reply)

\* what lines 707-740 do with a submission of the stored session o of key k
\* in the step from the current state: the count stays, a count beyond the
\* budget brings the exhausted summary, otherwise the submission goes to
\* the judge (with a provider) or gets its label in a round result
LikeAQuestion(t, k, o) ==
    /\ heap'[o].question_count = heap[o].question_count
    /\ IF heap[o].question_count > MaxQuestions
       THEN tk'[t].pc = "exh_send" /\ EmittedFor({"exhausted"}, k)'
       ELSE IF provider
       THEN tk'[t].pc = "judging" /\ heap'[o].ctx = Append(heap[o].ctx, UserTurn(tk[t].q))
       ELSE /\ tk'[t].pc = "idle"
            /\ \E i \in DOMAIN sent' :
                  /\ sent'[i].type = "round" /\ sent'[i].key = k
                  /\ sent'[i].text \in Range(valid_responses)
                  /\ sent'[i].n = heap[o].question_count

\* C20: when the answer check of a guess returns and the session is still
\* stored, a guess judged correct gets the success summary whatever the
\* count is; a guess judged not correct keeps the one slot it took and goes
\* on as a plain question does: budget check, then judge and round result.
C20_FailedGuessIsAQuestion ==
    [][\A t \in Turns, k \in Keys, o \in Objs :
          (tk[t].key = k /\ tk[t].obj = o /\ game_states[k] = o)
          => /\ \A reply \in Replies \cup {Failure} :
                   QCheckReturn(t, reply)
                   => IF JudgedCorrect(reply)
                      THEN tk'[t].pc = "succ_send" /\ EmittedFor({"success"}, k)'
                      ELSE LikeAQuestion(t, k, o)
             /\ (QCheckCall(t) /\ ~provider) => LikeAQuestion(t, k, o)]_vars

\* a guess that was judged not correct is with the judge, one slot taken
C20_Witness ==
    \E t \in Turns :
        /\ tk[t].pc = "judging"
        /\ is_a_guess(tk[t].q)
        /\ game_states["g1"] = tk[t].obj
        /\ heap[tk[t].obj].question_count = 1

\* the maximal runs of non-blank characters of a text
TokensOf(text) ==
    {SubSeq(text, r[1], r[2]) :
        r \in {r \in (1..Len(text)) \X (1..Len(text)) :
                 /\ r[1] <= r[2]
                 /\ \A x \in r[1]..r[2] : ~IsSpace(text[x])
                 /\ r[1] = 1 \/ IsSpace(text[r[1] - 1])
                 /\ r[2] = Len(text) \/ IsSpace(text[r[2] + 1])}}

\* token occurs in text, character for character
Occurs(token, text) ==
    \E p \in 1..Len(text) :
        /\ p + Len(token) - 1 <= Len(text)
        /\ SubSeq(text, p, p + Len(token) - 1) = token

TokenLabel(question, answer) ==
    IF \E token \in TokensOf(answer) : Occurs(token, question) THEN LblYes ELSE LblNo

\* the step sends to chat k the round result with this label and number
RoundIs(k, label, number) ==
    \E i \in DOMAIN sent' :
        /\ sent'[i].type = "round" /\ sent'[i].key = k
        /\ sent'[i].text = label
        /\ sent'[i].n = number
        /\ sent'[i].m = MaxQuestions - number

\* C21: without reasoning service, a submission within the budget is
\* answered with yes when a token of the solution occurs in the question
\* and with no otherwise, in a round result whose number is the count after
\* the submission and whose remainder is max_questions minus that number:
\* round 1 and max_questions - 1 for the first submission of a session.
C21_FallbackJudgeAndFirstRound ==
    [][\A k \in Keys :
          (game_states[k] # 0 /\ ~provider)
          => /\ \A q \in FallbackQuestions, w \in Waiters :
                   ( /\ ~is_a_guess(q)
                     /\ Session(k).question_count < MaxQuestions
                     /\ QAccept(k, q, w) )
                   => RoundIs(k, TokenLabel(q, Session(k).rec.answer),
                              Session(k).question_count + 1)
             /\ \A t \in Turns :
                   ( /\ tk[t].key = k /\ tk[t].obj = game_states[k]
                     /\ Session(k).question_count <= MaxQuestions
                     /\ QCheckCall(t) )
                   => RoundIs(k, TokenLabel(tk[t].q, Session(k).rec.answer),
                              Session(k).question_count)]_vars

\* the first submission of a game was answered yes as round 1 although the
\* solution as a whole does not occur in it
C21_Witness ==
    /\ \E i \in DOMAIN sent :
          /\ sent[i].type = "round" /\ sent[i].text = LblYes
          /\ sent[i].n = 1 /\ sent[i].m = MaxQuestions - 1
    /\ game_states["g1"] # 0
    /\ Len(Split(Session("g1").rec.answer)) = 2
    /\ ~provider

\* the record, the count and the context of the session of key k stay
SameSession(k) ==
    /\ Session(k)'.rec = Session(k).rec
    /\ Session(k)'.question_count = Session(k).question_count
    /\ Session(k)'.ctx = Session(k).ctx

\* C22: the start command for a key that has a session, whether it comes
\* through start_turtle_soup or through the waiter, is answered with the
\* in-progress notice, leaves the store and the session's record, count and
\* context as they were, and leaves a timer of the full duration running
\* for the session.
C22_StartWhileActiveOnlyRefreshes ==
    [][\A k \in Keys :
          (StartRejected(k) \/ \E w \in Starters : StartWhileActive(k, w))
          => /\ EmittedFor({"in_progress"}, k)'
             /\ game_states' = game_states
             /\ SameSession(k)
             /\ \E s \in Starters :
                   /\ st'[s].pc = "waiting" /\ st'[s].key = k
                   /\ st'[s].rem = SessionTimeout]_vars

\* C23: an input that is no command of the game, handled by the waiter of
\* a stored session, is answered with nothing and changes nothing: the
\* store, the session's record, count and context, and the time left on
\* the waiter's timer are as before.
C23_OtherInputChangesNothing ==
    [][\A k \in Keys, w \in Starters :
          OtherInput(k, w)
          => /\ sent' = <<>>
             /\ game_states' = game_states
             /\ SameSession(k)
             /\ st'[w].rem = st[w].rem]_vars

\* the presence, the record, the count or the context of key b's session
\* differs after the step
SessionChanged(b) ==
    \/ game_states'[b] # game_states[b]
    \/ game_states[b] # 0 /\ ~SameSession(b)

\* the step is taken by a handler or by the timer of chat a: it sends to a,
\* or moves a start, question or end handler of a
AddressedTo(a) ==
    \/ \E i \in DOMAIN sent' : sent'[i].key = a
    \/ \E s \in Starters : (st[s].key = a \/ st'[s].key = a) /\ st'[s] # st[s]
    \/ \E t \in Turns : (tk[t].key = a \/ tk'[t].key = a) /\ tk'[t] # tk[t]

\* C24: a step taken for one chat (start, question, end, force-end, reveal,
\* change-question, other input, the chat's timer) leaves the session of
\* every other chat as it was: present or absent, with its record, count
\* and context.
C24_KeysAreIndependent ==
    [][\A a \in Keys, b \in Keys :
          (a # b /\ AddressedTo(a)) => ~SessionChanged(b)]_vars

\* the question of chat g1 was changed while chat u1 is in a game that had
\* one question answered
C24_Witness ==
    /\ EmittedFor({"change_ok"}, "g1")
    /\ game_states["u1"] # 0
    /\ Session("u1").question_count = 1
    /\ Len(Session("u1").ctx) = 3
    /\ Session("g1").rec # Session("u1").rec

\* C25: a handler only removes or changes the session it works for.  A
\* question handler that moves on while the key holds another dict
\* than its own, and a start handler that runs its finally block while the
\* key holds the dict of another start handler, leave the stored session in
\* place with its record, count and context.
C25_RemovalHitsOwnSession ==
    [][\A k \in Keys :
          /\ \A t \in Turns :
                ( /\ tk[t].key = k /\ tk[t].pc \in TurnPcs /\ tk'[t] # tk[t]
                  /\ game_states[k] # 0 /\ game_states[k] # tk[t].obj )
                => (game_states'[k] = game_states[k] /\ SameSession(k))
          /\ \A s \in Starters :
                ( /\ st[s].key = k /\ st[s].pc = "timeout_send" /\ st'[s].pc = "idle"
                  /\ game_states[k] # 0
                  /\ \E s2 \in Starters \ {s} : st[s2].obj = game_states[k] )
                => (game_states'[k] = game_states[k] /\ SameSession(k))]_vars

\* C26: every round result that is sent carries a question number from 1
\* to max_questions and, as remaining count, max_questions minus that
\* number.
C26_RoundNumberInBudget ==
    \A i \in DOMAIN sent :
        sent[i].type = "round"
        => /\ sent[i].n \in 1..MaxQuestions
           /\ sent[i].m = MaxQuestions - sent[i].n

\* C27: every stored session is covered by a timer: a waiter of its key is
\* waiting with its timer running, or a start handler of its key is still
\* on its way to the waiter or to its finally block.
C27_StoredSessionHasTimer ==
    \A k \in Keys :
        game_states[k] # 0
        => \E s \in Starters :
              /\ st[s].key = k
              /\ st[s].pc \in {"intro", "noprov", "waiting", "timeout_send"}

\* a context made of the system turn and then pairs of a user turn and an
\* assistant turn that is a label of the vocabulary
SystemThenPairs(ctx) ==
    /\ Len(ctx) >= 1
    /\ ctx[1].role = "system"
    /\ Len(ctx) % 2 = 1
    /\ \A i \in 2..Len(ctx) :
          IF i % 2 = 0
          THEN ctx[i].role = "user"
          ELSE /\ ctx[i].role = "assistant"
               /\ ctx[i].content[1] \in Range(valid_responses)

JudgeInFlight(k) == \E t \in Turns : tk[t].key = k /\ tk[t].pc = "judging"

\* C28: with a reasoning service, a stored session whose waiter is waiting
\* and for which no judge call is in flight has a context that is the
\* system turn followed by pairs of user turn and label.
C28_ContextIsPairs ==
    \A k \in Keys :
        ( /\ provider
          /\ game_states[k] # 0
          /\ \E s \in Starters : st[s].key = k /\ st[s].pc = "waiting"
          /\ ~JudgeInFlight(k) )
        => SystemThenPairs(Session(k).ctx)

====
